---- MODULE Spec2Model ----
(***************************************************************************)
(* ElectricEye Lambda auditor: the cache helpers get_lambda_functions and  *)
(* get_lambda_layers, the seven checks registered under "lambda" (each a   *)
(* Python generator of findings), the legacy function_unused_check script  *)
(* and the pass that drains the checks one after the other.                *)
(***************************************************************************)
EXTENDS Integers, Sequences, FiniteSets, TLC

VARIABLES
    prog,       \* which program runs: "eeauditor", "legacy", or "concurrent" callers
    acct,       \* the deployed Lambda functions (catalogue entries), in list_functions order
    lay,        \* the deployed Lambda layers (catalogue entries), in list_layers order
    plan,       \* the checks the pass runs, in order
    ran,        \* the checks invoked so far in this pass, in order
    args,       \* awsAccountId / awsRegion / awsPartition handed to every check of the pass
    passNo,     \* number of the current pass
    cache,      \* the cache dict of the pass
    fetch,      \* per cache key: upstream paginations started / completed in this pass
    gen,        \* the generator object of the check being drained
    prevRun,    \* summary of the previous finished check invocation of the pass
    sink,       \* findings delivered to the consumer in this pass, in order
    errors,     \* checks whose exception the pass caught, in order
    idx,        \* position in the registry of the next check to invoke
    pc,         \* position of the pass: "idle", "draining"
    clock,      \* wall clock, advanced at each invocation
    reinvoked,  \* number of repeated invocations in this pass
    remembered, \* one finding of an earlier pass, kept for comparison
    imports,    \* legacy script: batch_import_findings attempts, in order
    legacy,     \* legacy script: loop position and status
    thr,        \* concurrent callers of get_lambda_functions
    pd          \* PagerDuty integration: the run of lambda_handler over one event

vars == <<prog, acct, lay, plan, ran, args, passNo, cache, fetch, gen, prevRun, sink,
          errors, idx, pc, clock, reinvoked, remembered, imports, legacy, thr, pd>>

----------------------------------------------------------------------------
(* Bounds *)

MaxResources == 3       \* functions plus layers deployed in the account
MaxResourcesPasses == 1 \* the same, in behaviours of several passes
PageSize == 1           \* resources per page of the upstream paginator
MaxPasses == 2          \* passes in one behaviour
MaxReinvoke == 1        \* repeated check invocations per pass
MaxFetchErrors == 1     \* upstream listing failures of the first pass
MaxFindings == 2        \* findings in one event handed to lambda_handler

----------------------------------------------------------------------------
(* Small helpers *)

Range(s) == {s[i] : i \in 1..Len(s)}

Min(a, b) == IF a < b THEN a ELSE b

RECURSIVE AppendUnique(_, _)
(* for x in items: if x not in list: list.append(x) *)
AppendUnique(list, items) ==
    IF items = <<>> THEN list
    ELSE AppendUnique(IF Head(items) \in Range(list) THEN list
                      ELSE Append(list, Head(items)),
                      Tail(items))

DistinctBy(s, Key(_)) ==
    \A i, j \in 1..Len(s) : i # j => Key(s[i]) # Key(s[j])

----------------------------------------------------------------------------
(* The upstream account: a catalogue of function and layer states.  Two    *)
(* catalogue entries with the same ARN are two states of one resource.     *)

Today == 100   \* the day of the audit; LastModified is kept in hours

FnVariants == 1..5

FnName(v) == CASE v \in {1, 2} -> "fn-a" [] v = 3 -> "fn-b" [] OTHER -> "fn-c"

FnArn(v) == "arn:lambda:function:" \o FnName(v)

(* One element of list_functions()["Functions"].  Optional keys are absent *)
(* from the descriptor, as in the API response.                            *)
FunctionOf(v) ==
    LET base == [FunctionName |-> FnName(v), FunctionArn |-> FnArn(v)]
    IN  CASE v = 1 -> base @@ [TracingConfig |-> [Mode |-> "Active"],
                               SigningJobArn |-> "arn:signer:job-1",
                               Runtime |-> "python3.9",
                               VpcConfig |-> [SubnetIds |-> <<"subnet-1", "subnet-2">>],
                               LastModified |-> (Today - 10) * 24]
          [] v = 2 -> base @@ [TracingConfig |-> [Mode |-> "PassThrough"],
                               Runtime |-> "python2.7",
                               VpcConfig |-> [SubnetIds |-> <<"subnet-1">>],
                               LastModified |-> (Today - 30) * 24]
          [] v = 3 -> base @@ [TracingConfig |-> [Mode |-> "PassThrough"],
                               Runtime |-> "go1.x",
                               LastModified |-> (Today - 30) * 24 + 1]
          [] v = 4 -> base @@ [SigningJobArn |-> "arn:signer:job-4",
                               Runtime |-> "nodejs14.x",
                               VpcConfig |-> [SubnetIds |-> <<"subnet-3">>],
                               LastModified |-> (Today - 45) * 24]
          [] OTHER -> base @@ [TracingConfig |-> [Mode |-> "Active"],
                               Runtime |-> "nodejs10.x",
                               LastModified |-> (Today - 31) * 24 - 23]

(* cloudwatch.get_metric_data(...)["MetricDataResults"] for the one query  *)
(* "m1" over the function's Invocations metric.                            *)
MetricDataResults(v) ==
    CASE v \in {1, 4} -> <<[Id |-> "m1", Values |-> <<3, 1>>]>>
      [] OTHER        -> <<[Id |-> "m1", Values |-> <<>>]>>

PublicStatement == [Principal |-> "*", Effect |-> "Allow"]

OrgStatement ==
    [Principal |-> "*", Effect |-> "Allow",
     Condition |-> [StringEquals |-> ("aws:PrincipalOrgID" :> "o-1")]]

SourceArnStatement ==
    [Principal |-> "*", Effect |-> "Allow",
     Condition |-> [ArnLike |-> ("AWS:SourceArn" :> "arn:s3:bucket")]]

AccountStatement == [Principal |-> "arn:iam:222222222222:root", Effect |-> "Allow"]

DenyStatement == [Principal |-> "*", Effect |-> "Deny"]

(* lambdas.get_policy(FunctionName=...): the parsed policy, or the error   *)
(* code of the ClientError it raises.                                      *)
FunctionPolicy(v) ==
    CASE v = 1 -> [Error |-> "ResourceNotFoundException", Statement |-> <<>>]
      [] v = 2 -> [Error |-> "", Statement |-> <<PublicStatement, SourceArnStatement>>]
      [] v = 3 -> [Error |-> "AccessDeniedException", Statement |-> <<>>]
      [] v = 4 -> [Error |-> "", Statement |-> <<AccountStatement>>]
      [] OTHER -> [Error |-> "", Statement |-> <<SourceArnStatement>>]

LayerVariants == 1..3

LayerName(v) == IF v = 1 THEN "layer-x" ELSE "layer-y"

(* One element of list_layers()["Layers"]. *)
LayerOf(v) ==
    [LayerName |-> LayerName(v),
     LatestMatchingVersion |->
        [LayerVersionArn |-> "arn:lambda:layer:" \o LayerName(v) \o ":1",
         Version |-> 1]]

(* lambdas.get_layer_version_policy(...) *)
LayerPolicy(v) ==
    CASE v = 1 -> [Error |-> "", Statement |-> <<PublicStatement, OrgStatement>>]
      [] v = 2 -> [Error |-> "", Statement |-> <<SourceArnStatement, AccountStatement,
                                                 DenyStatement>>]
      [] OTHER -> [Error |-> "ResourceNotFoundException", Statement |-> <<>>]

(* ec2.describe_subnets: the Availability Zone of each subnet *)
SubnetAz ==
    ("subnet-1" :> "use1-az1") @@ ("subnet-2" :> "use1-az2") @@ ("subnet-3" :> "use1-az2")

describe_subnets(SubnetIds) ==
    [k \in 1..Len(SubnetIds) |-> [SubnetId |-> SubnetIds[k],
                                  AvailabilityZone |-> SubnetAz[SubnetIds[k]]]]

(* Listings hold each function (each layer) once *)
Accounts ==
    {s \in UNION {[1..n -> FnVariants] : n \in 0..Cardinality(FnVariants)} :
        DistinctBy(s, FnName)}

LayerSets ==
    {s \in UNION {[1..n -> LayerVariants] : n \in 0..Cardinality(LayerVariants)} :
        DistinctBy(s, LayerName)}

Worlds(n) == {w \in Accounts \X LayerSets : Len(w[1]) + Len(w[2]) <= n}

WorldsOfOnePass == Worlds(MaxResources)

WorldsOfPasses == Worlds(MaxResourcesPasses)

ListFunctions(a) == [i \in 1..Len(a) |-> FunctionOf(a[i])]

ListLayers(l) == [i \in 1..Len(l) |-> LayerOf(l[i])]

VariantNamed(functionName) ==
    CHOOSE v \in Range(acct) : FnName(v) = functionName

get_policy(functionName) == FunctionPolicy(VariantNamed(functionName))

get_metric_data(functionName) ==
    [MetricDataResults |-> MetricDataResults(VariantNamed(functionName))]

get_layer_version_policy(layerName) ==
    LayerPolicy(CHOOSE v \in Range(lay) : LayerName(v) = layerName)

PassArgs ==
    {[awsAccountId |-> "111111111111", awsRegion |-> "us-east-1", awsPartition |-> "aws"],
     [awsAccountId |-> "222222222222", awsRegion |-> "us-gov-west-1", awsPartition |-> "aws-us-gov"]}

(* The arguments of a pass over a partition other than "aws" *)
OnePassArgs == {a \in PassArgs : a.awsPartition # "aws"}

----------------------------------------------------------------------------
(* The cache helpers *)

EmptyCache == [k \in {} |-> <<>>]

(* dict.get(key): the stored value, or None *)
CacheGet(c, key) ==
    IF key \in DOMAIN c THEN [isNone |-> FALSE, value |-> c[key]]
    ELSE [isNone |-> TRUE, value |-> <<>>]

(* Python truth value of `response`: None and the empty list are false *)
Truthy(response) == ~response.isNone /\ Len(response.value) > 0

NumPages(listing) ==
    IF Len(listing) = 0 THEN 1 ELSE (Len(listing) + PageSize - 1) \div PageSize

Page(listing, p) ==
    SubSeq(listing, (p - 1) * PageSize + 1, Min(p * PageSize, Len(listing)))

RECURSIVE PaginateFrom(_, _, _, _)
(* for page in paginator.paginate(): for r in page[...]: acc.append(r)     *)
(* failAt is the page whose retrieval raises (0: none does).               *)
PaginateFrom(listing, p, acc, failAt) ==
    IF p > NumPages(listing) THEN [items |-> acc, raised |-> FALSE, page |-> 0]
    ELSE IF p = failAt THEN [items |-> acc, raised |-> TRUE, page |-> p]
    ELSE PaginateFrom(listing, p + 1, acc \o Page(listing, p), failAt)

Paginate(listing, failAt) == PaginateFrom(listing, 1, <<>>, failAt)

(* Variant: the list is put into the cache before the pages are read, so a *)
(* failing page leaves the pages read so far under the key.                *)
get_lambda_functions_partial(c, failAt) ==
    LET response == CacheGet(c, "get_lambda_functions")
    IN  IF Truthy(response)
        THEN [cache |-> c, ret |-> response.value, raised |-> FALSE,
              fetched |-> FALSE, page |-> 0]
        ELSE LET p == Paginate(ListFunctions(acct), failAt)
             IN  [cache |-> ("get_lambda_functions" :> p.items) @@ c,
                  ret |-> p.items, raised |-> p.raised,
                  fetched |-> TRUE, page |-> p.page]

(* Variant: the listing is returned without being stored *)
get_lambda_functions_unstored(c, failAt) ==
    LET p == Paginate(ListFunctions(acct), failAt)
    IN  [cache |-> c, ret |-> p.items, raised |-> p.raised,
         fetched |-> TRUE, page |-> p.page]

(* Variant: a module-level flag tells that the listing was fetched once in *)
(* this process; from the second pass on the helper returns what the cache *)
(* dict holds and never lists upstream.                                    *)
get_lambda_functions_once(c, failAt) ==
    LET response == CacheGet(c, "get_lambda_functions")
    IN  IF Truthy(response) \/ passNo > 1
        THEN [cache |-> c, ret |-> response.value, raised |-> FALSE,
              fetched |-> FALSE, page |-> 0]
        ELSE LET p == Paginate(ListFunctions(acct), failAt)
             IN  IF p.raised
                 THEN [cache |-> c, ret |-> <<>>, raised |-> TRUE,
                       fetched |-> TRUE, page |-> p.page]
                 ELSE [cache |-> ("get_lambda_functions" :> p.items) @@ c,
                       ret |-> p.items, raised |-> FALSE,
                       fetched |-> TRUE, page |-> 0]

(* Result of a helper call: the cache afterwards, the returned list,       *)
(* whether it raised, whether the upstream paginator was used, and the     *)
(* page that failed.                                                       *)
get_lambda_functions(c, failAt) ==
    LET response == CacheGet(c, "get_lambda_functions")
    IN  IF Truthy(response)
        THEN [cache |-> c, ret |-> response.value, raised |-> FALSE,
              fetched |-> FALSE, page |-> 0]
        ELSE LET p == Paginate(ListFunctions(acct), failAt)
             IN  IF p.raised
                 THEN [cache |-> c, ret |-> <<>>, raised |-> TRUE,
                       fetched |-> TRUE, page |-> p.page]
                 ELSE [cache |-> ("get_lambda_functions" :> p.items) @@ c,
                       ret |-> p.items, raised |-> FALSE,
                       fetched |-> TRUE, page |-> 0]

(* Variant: the helper starts from an empty dict when it stores its list *)
get_lambda_layers_fresh(c, failAt) ==
    LET response == CacheGet(c, "get_lambda_layers")
    IN  IF Truthy(response)
        THEN [cache |-> c, ret |-> response.value, raised |-> FALSE,
              fetched |-> FALSE, page |-> 0]
        ELSE LET p == Paginate(ListLayers(lay), failAt)
             IN  IF p.raised
                 THEN [cache |-> c, ret |-> <<>>, raised |-> TRUE,
                       fetched |-> TRUE, page |-> p.page]
                 ELSE [cache |-> ("get_lambda_layers" :> p.items),
                       ret |-> p.items, raised |-> FALSE,
                       fetched |-> TRUE, page |-> 0]

get_lambda_layers(c, failAt) ==
    LET response == CacheGet(c, "get_lambda_layers")
    IN  IF Truthy(response)
        THEN [cache |-> c, ret |-> response.value, raised |-> FALSE,
              fetched |-> FALSE, page |-> 0]
        ELSE LET p == Paginate(ListLayers(lay), failAt)
             IN  IF p.raised
                 THEN [cache |-> c, ret |-> <<>>, raised |-> TRUE,
                       fetched |-> TRUE, page |-> p.page]
                 ELSE [cache |-> ("get_lambda_layers" :> p.items) @@ c,
                       ret |-> p.items, raised |-> FALSE,
                       fetched |-> TRUE, page |-> 0]

----------------------------------------------------------------------------
(* Findings.  Every branch of every check builds its own literal dict; the *)
(* fields shared by all branches are gathered in Common, the fields that   *)
(* differ per branch are written out per branch below.                     *)

ProductArn(a) ==
    "arn:" \o a.awsPartition \o ":securityhub:" \o a.awsRegion \o ":"
        \o a.awsAccountId \o ":product/" \o a.awsAccountId \o "/default"

Common(id, title, rtype, rid, a, t) ==
    [SchemaVersion |-> "2018-10-08",
     Id |-> id,
     ProductArn |-> ProductArn(a),
     GeneratorId |-> rid,
     AwsAccountId |-> a.awsAccountId,
     CreatedAt |-> t,
     Title |-> title,
     Resources |-> <<[Type |-> rtype, Id |-> rid,
                      Partition |-> a.awsPartition, Region |-> a.awsRegion]>>]

Outcome(label, compliance, workflow, recordState) ==
    [Severity |-> [Label |-> label],
     Compliance |-> [Status |-> compliance],
     Workflow |-> [Status |-> workflow],
     RecordState |-> recordState]

Title1 == "[Lambda.1] Lambda functions should be deleted after 30 days of no use"
Title2 == "[Lambda.2] Lambda functions should use active tracing with AWS X-Ray"
Title3 == "[Lambda.3] Lambda functions should use code signing from AWS Signer to ensure trusted code runs in a Function"
Title4 == "[Lambda.4] Lambda layers should not be publicly shared"
Title5 == "[Lambda.5] Lambda functions should not be publicly shared"
Title6 == "[Lambda.6] Lambda functions should use supported runtimes"
Title7 == "[Lambda.7] Lambda functions in VPCs should use more than one Availability Zone"


Lambda1Passed(arn, a, t) ==
    Common(arn \o "/lambda-function-unused-check", Title1, "AwsLambdaFunction", arn, a, t)
        @@ Outcome("INFORMATIONAL", "PASSED", "RESOLVED", "ARCHIVED")
Lambda1Failed(arn, a, t) ==
    Common(arn \o "/lambda-function-unused-check", Title1, "AwsLambdaFunction", arn, a, t)
        @@ Outcome("LOW", "FAILED", "NEW", "ACTIVE")
Lambda2Passed(arn, a, t) ==
    Common(arn \o "/lambda-active-tracing-check", Title2, "AwsLambdaFunction", arn, a, t)
        @@ Outcome("INFORMATIONAL", "PASSED", "RESOLVED", "ARCHIVED")
(* Variant: the region is part of the Id of the failing branch *)
Lambda2FailedRegional(arn, a, t) ==
    Common(arn \o "/" \o a.awsRegion \o "/lambda-active-tracing-check", Title2,
           "AwsLambdaFunction", arn, a, t)
        @@ Outcome("LOW", "FAILED", "NEW", "ACTIVE")
Lambda2Failed(arn, a, t) ==
    Common(arn \o "/lambda-active-tracing-check", Title2, "AwsLambdaFunction", arn, a, t)
        @@ Outcome("LOW", "FAILED", "NEW", "ACTIVE")
Lambda3Passed(arn, a, t) ==
    Common(arn \o "/lambda-code-signing-check", Title3, "AwsLambdaFunction", arn, a, t)
        @@ Outcome("INFORMATIONAL", "PASSED", "RESOLVED", "ARCHIVED")
Lambda3Failed(arn, a, t) ==
    Common(arn \o "/lambda-code-signing-check", Title3, "AwsLambdaFunction", arn, a, t)
        @@ Outcome("MEDIUM", "FAILED", "NEW", "ACTIVE")
(* Variant: a publicly shared layer is reported as critical *)
Lambda4FailedCritical(arn, a, t) ==
    Common(arn \o "/public-lambda-layer-check", Title4, "AwsLambdaLayerVersion", arn, a, t)
        @@ Outcome("CRITICAL", "FAILED", "NEW", "ACTIVE")

Lambda4Failed(arn, a, t) ==
    Common(arn \o "/public-lambda-layer-check", Title4, "AwsLambdaLayerVersion", arn, a, t)
        @@ Outcome("HIGH", "FAILED", "NEW", "ACTIVE")
Lambda4Passed(arn, a, t) ==
    Common(arn \o "/public-lambda-layer-check", Title4, "AwsLambdaLayerVersion", arn, a, t)
        @@ Outcome("INFORMATIONAL", "PASSED", "RESOLVED", "ARCHIVED")
Lambda5Failed(arn, a, t) ==
    Common(arn \o "/public-lambda-function-check", Title5, "AwsLambdaFunction", arn, a, t)
        @@ Outcome("MEDIUM", "FAILED", "NEW", "ACTIVE")
Lambda5Passed(arn, a, t) ==
    Common(arn \o "/public-lambda-function-check", Title5, "AwsLambdaFunction", arn, a, t)
        @@ Outcome("INFORMATIONAL", "PASSED", "RESOLVED", "ARCHIVED")
Lambda5NoPolicy(arn, a, t) ==
    Common(arn \o "/public-lambda-function-check", Title5, "AwsLambdaFunction", arn, a, t)
        @@ Outcome("INFORMATIONAL", "PASSED", "RESOLVED", "ARCHIVED")
Lambda6Failed(arn, a, t) ==
    Common(arn \o "/lambda-supported-runtimes-check", Title6, "AwsLambdaFunction", arn, a, t)
        @@ Outcome("MEDIUM", "FAILED", "NEW", "ACTIVE")
Lambda6Passed(arn, a, t) ==
    Common(arn \o "/lambda-supported-runtimes-check", Title6, "AwsLambdaFunction", arn, a, t)
        @@ Outcome("INFORMATIONAL", "PASSED", "RESOLVED", "ARCHIVED")
Lambda7Failed(arn, a, t) ==
    Common(arn \o "/lambda-vpc-subnet-ha-check", Title7, "AwsLambdaFunction", arn, a, t)
        @@ Outcome("MEDIUM", "FAILED", "NEW", "ACTIVE")
Lambda7Passed(arn, a, t) ==
    Common(arn \o "/lambda-vpc-subnet-ha-check", Title7, "AwsLambdaFunction", arn, a, t)
        @@ Outcome("INFORMATIONAL", "PASSED", "RESOLVED", "ARCHIVED")
(* Variant: the KeyError branch keeps the workflow of a failure *)
Lambda7NoVpcMixed(arn, a, t) ==
    Common(arn \o "/lambda-vpc-subnet-ha-check", Title7, "AwsLambdaFunction", arn, a, t)
        @@ Outcome("INFORMATIONAL", "PASSED", "NEW", "ACTIVE")
Lambda7NoVpc(arn, a, t) ==
    Common(arn \o "/lambda-vpc-subnet-ha-check", Title7, "AwsLambdaFunction", arn, a, t)
        @@ Outcome("INFORMATIONAL", "PASSED", "RESOLVED", "ARCHIVED")

----------------------------------------------------------------------------
(* The loop body of each check for one element of the listing: the         *)
(* findings it yields, in order, whether an exception leaves the body      *)
(* after them, and the check's local lists afterwards.                     *)

Yields(out, loc) == [out |-> out, raised |-> FALSE, loc |-> loc]

Raises(loc) == [out |-> <<>>, raised |-> TRUE, loc |-> loc]

(* Variant: the age is rounded to the nearest day *)
date_delta_days_rounded(function) ==
    (Today * 24 - function.LastModified + 12) \div 24

(* (now - parser.parse(function["LastModified"])).days: the whole days of  *)
(* the difference                                                          *)
date_delta_days(function) == (Today * 24 - function.LastModified) \div 24

unused_function_check(function, loc, a, t) ==
    LET lambdaArn == function.FunctionArn
        metrics == get_metric_data(function.FunctionName).MetricDataResults
    IN  Yields([m \in 1..Len(metrics) |->
                   IF Len(metrics[m].Values) > 0 \/ date_delta_days(function) < 30
                   THEN Lambda1Passed(lambdaArn, a, t)
                   ELSE Lambda1Failed(lambdaArn, a, t)], loc)

function_tracing_check(function, loc, a, t) ==
    LET lambdaArn == function.FunctionArn
    IN  IF "TracingConfig" \notin DOMAIN function THEN Raises(loc)
        ELSE IF function.TracingConfig.Mode = "Active"
             THEN Yields(<<Lambda2Passed(lambdaArn, a, t)>>, loc)
             ELSE Yields(<<Lambda2Failed(lambdaArn, a, t)>>, loc)

(* Variant: the key is read after the passing finding was yielded, so a    *)
(* function without the key gets the passing and then the failing finding. *)
function_code_signer_check_late(function, loc, a, t) ==
    LET lambdaArn == function.FunctionArn
    IN  IF "SigningJobArn" \in DOMAIN function
        THEN Yields(<<Lambda3Passed(lambdaArn, a, t)>>, loc)
        ELSE Yields(<<Lambda3Passed(lambdaArn, a, t), Lambda3Failed(lambdaArn, a, t)>>, loc)

function_code_signer_check(function, loc, a, t) ==
    LET lambdaArn == function.FunctionArn
    IN  IF "SigningJobArn" \in DOMAIN function
        THEN Yields(<<Lambda3Passed(lambdaArn, a, t)>>, loc)
        ELSE Yields(<<Lambda3Failed(lambdaArn, a, t)>>, loc)

(* Variant: any Condition counts, as in the check of the function policies *)
HasAnyCondition(s) == "Condition" \in DOMAIN s

(* s["Condition"]["StringEquals"]["aws:PrincipalOrgID"] raises no KeyError *)
HasOrgCondition(s) ==
    /\ "Condition" \in DOMAIN s
    /\ "StringEquals" \in DOMAIN s.Condition
    /\ "aws:PrincipalOrgID" \in DOMAIN s.Condition.StringEquals

(* Variant: a failing policy lookup is caught and the layer is skipped *)
public_lambda_layer_check_skip(layer, loc, a, t) ==
    LET layerArn == layer.LatestMatchingVersion.LayerVersionArn
        layerPolicy == get_layer_version_policy(layer.LayerName)
    IN  IF layerPolicy.Error # "" THEN Yields(<<>>, loc)
        ELSE Yields([k \in 1..Len(layerPolicy.Statement) |->
                        LET s == layerPolicy.Statement[k]
                        IN  IF s.Principal = "*" /\ s.Effect = "Allow"
                               /\ HasOrgCondition(s) = FALSE
                            THEN Lambda4Failed(layerArn, a, t)
                            ELSE Lambda4Passed(layerArn, a, t)], loc)

public_lambda_layer_check(layer, loc, a, t) ==
    LET layerArn == layer.LatestMatchingVersion.LayerVersionArn
        layerPolicy == get_layer_version_policy(layer.LayerName)
    IN  IF layerPolicy.Error # "" THEN Raises(loc)
        ELSE Yields([k \in 1..Len(layerPolicy.Statement) |->
                        LET s == layerPolicy.Statement[k]
                        IN  IF s.Principal = "*" /\ s.Effect = "Allow"
                               /\ HasOrgCondition(s) = FALSE
                            THEN Lambda4Failed(layerArn, a, t)
                            ELSE Lambda4Passed(layerArn, a, t)], loc)

(* Variant: a ClientError with another code is raised again *)
public_lambda_function_check_reraise(function, loc, a, t) ==
    LET lambdaArn == function.FunctionArn
        funcPolicy == get_policy(function.FunctionName)
    IN  IF funcPolicy.Error = "ResourceNotFoundException"
        THEN Yields(<<Lambda5NoPolicy(lambdaArn, a, t)>>, loc)
        ELSE IF funcPolicy.Error # "" THEN Raises(loc)
        ELSE Yields([k \in 1..Len(funcPolicy.Statement) |->
                        LET s == funcPolicy.Statement[k]
                            hasCondition == "Condition" \in DOMAIN s
                        IN  IF s.Principal = "*" /\ s.Effect = "Allow"
                               /\ hasCondition = FALSE
                            THEN Lambda5Failed(lambdaArn, a, t)
                            ELSE Lambda5Passed(lambdaArn, a, t)], loc)

public_lambda_function_check(function, loc, a, t) ==
    LET lambdaArn == function.FunctionArn
        funcPolicy == get_policy(function.FunctionName)
    IN  IF funcPolicy.Error = "ResourceNotFoundException"
        THEN Yields(<<Lambda5NoPolicy(lambdaArn, a, t)>>, loc)
        ELSE IF funcPolicy.Error # "" THEN Yields(<<>>, loc)
        ELSE Yields([k \in 1..Len(funcPolicy.Statement) |->
                        LET s == funcPolicy.Statement[k]
                            hasCondition == "Condition" \in DOMAIN s
                        IN  IF s.Principal = "*" /\ s.Effect = "Allow"
                               /\ hasCondition = FALSE
                            THEN Lambda5Failed(lambdaArn, a, t)
                            ELSE Lambda5Passed(lambdaArn, a, t)], loc)

supportedRuntimes ==
    {"nodejs14.x", "nodejs12.x", "python3.9", "python3.8", "python3.7",
     "python3.6", "ruby2.7", "java11", "java8", "java8.al2", "go1.x",
     "dotnet6", "dotnetcore3.1", "provided.al2", "provided"}

lambda_supported_runtimes_check(function, loc, a, t) ==
    LET lambdaArn == function.FunctionArn
    IN  IF "Runtime" \notin DOMAIN function THEN Raises(loc)
        ELSE IF function.Runtime \notin supportedRuntimes
             THEN Yields(<<Lambda6Failed(lambdaArn, a, t)>>, loc)
             ELSE Yields(<<Lambda6Passed(lambdaArn, a, t)>>, loc)

lambda_vpc_ha_subnets_check(function, loc, a, t) ==
    LET lambdaArn == function.FunctionArn
    IN  IF "VpcConfig" \notin DOMAIN function
        THEN Yields(<<Lambda7NoVpc(lambdaArn, a, t)>>, loc)
        ELSE LET uSubnets == AppendUnique(loc.uSubnets, function.VpcConfig.SubnetIds)
                 subnets == describe_subnets(uSubnets)
                 uAzs == AppendUnique(loc.uAzs,
                            [k \in 1..Len(subnets) |-> subnets[k].AvailabilityZone])
                 after == [uSubnets |-> uSubnets, uAzs |-> uAzs]
             IN  IF Len(uAzs) <= 1
                 THEN Yields(<<Lambda7Failed(lambdaArn, a, t)>>, after)
                 ELSE Yields(<<Lambda7Passed(lambdaArn, a, t)>>, after)

(* Variant: two of the decorated functions stand in the other order *)
RegistrySwapped ==
    <<"unused_function_check", "function_code_signer_check",
      "function_tracing_check", "public_lambda_layer_check",
      "public_lambda_function_check", "lambda_supported_runtimes_check",
      "lambda_vpc_ha_subnets_check">>

(* The checks announced under "lambda", in the order of the decorators *)
Registry ==
    <<"unused_function_check", "function_tracing_check",
      "function_code_signer_check", "public_lambda_layer_check",
      "public_lambda_function_check", "lambda_supported_runtimes_check",
      "lambda_vpc_ha_subnets_check">>

(* CheckRegister: register_check(category) puts the decorated function at  *)
(* the end of the category's list; get_checks(category) returns the list.  *)
register_check(reg, category, check) ==
    IF category \in DOMAIN reg
    THEN [reg EXCEPT ![category] = Append(@, check)]
    ELSE (category :> <<check>>) @@ reg

get_checks(reg, category) ==
    IF category \in DOMAIN reg THEN reg[category] ELSE <<>>

RECURSIVE Decorate(_, _)
(* Importing the module runs the decorators from top to bottom *)
Decorate(reg, decorated) ==
    IF decorated = <<>> THEN reg
    ELSE Decorate(register_check(reg, "lambda", Head(decorated)), Tail(decorated))

(* registry = CheckRegister(), after the import of the auditor module *)
registry == Decorate([c \in {} |-> <<>>], Registry)

Body(check, item, loc, a, t) ==
    CASE check = "unused_function_check" -> unused_function_check(item, loc, a, t)
      [] check = "function_tracing_check" -> function_tracing_check(item, loc, a, t)
      [] check = "function_code_signer_check" -> function_code_signer_check(item, loc, a, t)
      [] check = "public_lambda_layer_check" -> public_lambda_layer_check(item, loc, a, t)
      [] check = "public_lambda_function_check" -> public_lambda_function_check(item, loc, a, t)
      [] check = "lambda_supported_runtimes_check" -> lambda_supported_runtimes_check(item, loc, a, t)
      [] OTHER -> lambda_vpc_ha_subnets_check(item, loc, a, t)

----------------------------------------------------------------------------
(* A check is a generator function: calling it runs no code; each next()   *)
(* runs the body up to the next yield, to its end, or to an exception.     *)

CacheKeys == {"get_lambda_functions", "get_lambda_layers"}

KeyOf(check) ==
    IF check = "public_lambda_layer_check" THEN "get_lambda_layers"
    ELSE "get_lambda_functions"

(* Variant: the two lists live at module level and survive an invocation *)
StaleLocals == gen.loc

(* uSubnets = [] and uAzs = [] at the top of lambda_vpc_ha_subnets_check *)
FreshLocals == [uSubnets |-> <<>>, uAzs |-> <<>>]

NoGen ==
    [check |-> "", status |-> "none", again |-> FALSE, inv |-> 0, time |-> 0,
     listing |-> <<>>, i |-> 0, pending |-> <<>>, j |-> 0, raiseAfter |-> FALSE,
     loc |-> [uSubnets |-> <<>>, uAzs |-> <<>>], yielded |-> <<>>]

NewGen(check, again, now) ==
    [NoGen EXCEPT !.check = check, !.status = "created", !.again = again,
                  !.inv = now, !.loc = FreshLocals]

RECURSIVE ResumeLazily(_, _)
ResumeLazily(g, a) ==
    IF g.j < Len(g.pending)
    THEN [gen |-> [g EXCEPT !.j = g.j + 1, !.status = "suspended",
                            !.yielded = Append(g.yielded, g.pending[g.j + 1])],
          out |-> <<g.pending[g.j + 1]>>]
    ELSE IF g.raiseAfter
    THEN [gen |-> [g EXCEPT !.status = "raised"], out |-> <<>>]
    ELSE IF g.i >= Len(g.listing)
    THEN [gen |-> [g EXCEPT !.status = "done"], out |-> <<>>]
    ELSE LET b == Body(g.check, g.listing[g.i + 1], g.loc, a, g.time)
         IN  ResumeLazily([g EXCEPT !.i = g.i + 1, !.pending = b.out, !.j = 0,
                                    !.raiseAfter = b.raised, !.loc = b.loc], a)

(* Variant: the check builds the whole list of findings before it hands    *)
(* out the first one, so an exception surfaces before any finding.         *)
ResumeEager(g, a) ==
    IF /\ g.status = "created"
       /\ \E k \in 1..Len(g.listing) :
             Body(g.check, g.listing[k], FreshLocals, a, g.time).raised
    THEN [gen |-> [g EXCEPT !.status = "raised"], out |-> <<>>]
    ELSE ResumeLazily(g, a)

RECURSIVE ResumeReversed(_, _)
(* Variant: the loop visits the listing from its end *)
ResumeReversed(g, a) ==
    IF g.j < Len(g.pending)
    THEN [gen |-> [g EXCEPT !.j = g.j + 1, !.status = "suspended",
                            !.yielded = Append(g.yielded, g.pending[g.j + 1])],
          out |-> <<g.pending[g.j + 1]>>]
    ELSE IF g.raiseAfter
    THEN [gen |-> [g EXCEPT !.status = "raised"], out |-> <<>>]
    ELSE IF g.i >= Len(g.listing)
    THEN [gen |-> [g EXCEPT !.status = "done"], out |-> <<>>]
    ELSE LET b == Body(g.check, g.listing[Len(g.listing) - g.i], g.loc, a, g.time)
         IN  ResumeReversed([g EXCEPT !.i = g.i + 1, !.pending = b.out, !.j = 0,
                                      !.raiseAfter = b.raised, !.loc = b.loc], a)

(* Variant: after the last finding of a resource the loop already runs the *)
(* calls of the next resource, before it hands the finding out.            *)
ResumeAhead(g, a) ==
    LET s == ResumeLazily(g, a)
        h == s.gen
    IN  IF /\ h.status = "suspended" /\ h.j = Len(h.pending)
           /\ ~h.raiseAfter /\ h.i < Len(h.listing)
        THEN LET b == Body(h.check, h.listing[h.i + 1], h.loc, a, h.time)
             IN  [gen |-> [h EXCEPT !.i = h.i + 1, !.pending = b.out, !.j = 0,
                                    !.raiseAfter = b.raised, !.loc = b.loc],
                  out |-> s.out]
        ELSE s

RECURSIVE Resume(_, _)
(* Run the loop from where the generator is suspended. *)
Resume(g, a) ==
    IF g.j < Len(g.pending)
    THEN [gen |-> [g EXCEPT !.j = g.j + 1, !.status = "suspended",
                            !.yielded = Append(g.yielded, g.pending[g.j + 1])],
          out |-> <<g.pending[g.j + 1]>>]
    ELSE IF g.raiseAfter
    THEN [gen |-> [g EXCEPT !.status = "raised"], out |-> <<>>]
    ELSE IF g.i >= Len(g.listing)
    THEN [gen |-> [g EXCEPT !.status = "done"], out |-> <<>>]
    ELSE LET b == Body(g.check, g.listing[g.i + 1], g.loc, a, g.time)
         IN  Resume([g EXCEPT !.i = g.i + 1, !.pending = b.out, !.j = 0,
                              !.raiseAfter = b.raised, !.loc = b.loc], a)

(* One next() on the generator g with cache c: the generator and the cache *)
(* afterwards, the finding yielded (if any) and what the helper did.       *)
GenNext(g, c, a, now, failAt) ==
    IF g.status = "created"
    THEN LET r == IF KeyOf(g.check) = "get_lambda_layers"
                  THEN get_lambda_layers(c, failAt)
                  ELSE get_lambda_functions(c, failAt)
         IN  IF r.raised
             THEN [gen |-> [g EXCEPT !.status = "raised", !.time = now],
                   out |-> <<>>, cache |-> r.cache,
                   fetched |-> r.fetched, fetchRaised |-> TRUE, page |-> r.page]
             ELSE LET s == Resume([g EXCEPT !.listing = r.ret, !.time = now], a)
                  IN  [gen |-> s.gen, out |-> s.out, cache |-> r.cache,
                       fetched |-> r.fetched, fetchRaised |-> FALSE, page |-> 0]
    ELSE LET s == Resume(g, a)
         IN  [gen |-> s.gen, out |-> s.out, cache |-> c,
              fetched |-> FALSE, fetchRaised |-> FALSE, page |-> 0]

NoFetch == [calls |-> 0, ok |-> 0, failPage |-> 0]

(* Bookkeeping of the upstream paginations of one cache key *)
Fetched(f, key, r) ==
    IF ~r.fetched THEN f
    ELSE [f EXCEPT ![key] = [calls |-> @.calls + 1,
                             ok |-> IF r.fetchRaised THEN @.ok ELSE @.ok + 1,
                             failPage |-> IF r.fetchRaised THEN r.page ELSE @.failPage]]

(* What is kept of a finding of an earlier pass *)
Remember(f) ==
    [Title |-> f.Title, Resource |-> f.Resources[1].Id, Id |-> f.Id,
     Status |-> f.Compliance.Status]

Nothing == [Title |-> "", Resource |-> "", Id |-> "", Status |-> ""]

(* The finding kept when a pass ends: one of the pass, unless one is kept already *)
Keep(kept, findings) ==
    IF kept # Nothing THEN {kept}
    ELSE {Nothing} \cup {Remember(findings[k]) : k \in 1..Len(findings)}

FetchErrors == fetch["get_lambda_functions"].calls - fetch["get_lambda_functions"].ok
                   + fetch["get_lambda_layers"].calls - fetch["get_lambda_layers"].ok

(* The page at which the upstream listing may fail in this step (0: none); *)
(* the failures are those of the first pass of a behaviour                 *)
FailChoices ==
    IF passNo > 1 \/ FetchErrors >= MaxFetchErrors THEN {0}
    ELSE 0..NumPages(IF gen.check = "public_lambda_layer_check"
                     THEN ListLayers(lay) ELSE ListFunctions(acct))

----------------------------------------------------------------------------
(* One pass: the checks of the registry are invoked in order, each drained *)
(* to its end; an exception of a check is caught and the pass goes on.     *)

(* A pass runs every registered check, or the checks it was asked for *)
PlansOfPasses ==
    {get_checks(registry, "lambda"),
     <<"function_tracing_check", "lambda_supported_runtimes_check">>}

(* The same, and the passes asked for one check only *)
Plans ==
    PlansOfPasses
        \cup {<<get_checks(registry, "lambda")[k]>> :
                 k \in 1..Len(get_checks(registry, "lambda"))}

NoRun == [check |-> "", status |-> "none", out |-> <<>>, cache |-> EmptyCache]

RunOf(g, c) == [check |-> g.check, status |-> g.status, out |-> g.yielded, cache |-> c]

LegacyUnchanged == UNCHANGED <<imports, legacy>>

WorldUnchanged == UNCHANGED <<prog, acct, lay, plan, args, passNo, thr, pd>>

InvokeCheck ==
    /\ prog = "eeauditor" /\ pc = "idle" /\ idx <= Len(plan)
    /\ gen' = NewGen(plan[idx], FALSE, clock + 1)
    /\ ran' = Append(ran, plan[idx])
    /\ prevRun' = RunOf(gen, cache)
    /\ clock' = clock + 1
    /\ pc' = "draining"
    /\ UNCHANGED <<cache, fetch, sink, errors, idx, reinvoked, remembered>>
    /\ LegacyUnchanged /\ WorldUnchanged

(* The last check of the pass is invoked again, with the cache of the pass *)
ReinvokeCheck ==
    /\ prog = "eeauditor" /\ pc = "idle" /\ idx > Len(plan)
    /\ gen.status \in {"done", "raised"}
    /\ reinvoked < MaxReinvoke
    /\ gen' = NewGen(gen.check, TRUE, clock + 1)
    /\ ran' = Append(ran, gen.check)
    /\ prevRun' = RunOf(gen, cache)
    /\ clock' = clock + 1
    /\ reinvoked' = reinvoked + 1
    /\ pc' = "draining"
    /\ UNCHANGED <<cache, fetch, sink, errors, idx, remembered>>
    /\ LegacyUnchanged /\ WorldUnchanged

(* next() yields a finding, which is handed to the consumer at once *)
DeliverFinding ==
    /\ prog = "eeauditor" /\ pc = "draining"
    /\ \E failAt \in FailChoices :
         LET r == GenNext(gen, cache, args, clock, failAt)
         IN  /\ r.gen.status = "suspended"
             /\ gen' = r.gen
             /\ cache' = r.cache
             /\ fetch' = Fetched(fetch, KeyOf(gen.check), r)
             /\ sink' = Append(sink, r.out[1])
    /\ UNCHANGED <<prevRun, errors, idx, pc, clock, reinvoked, remembered, ran>>
    /\ LegacyUnchanged /\ WorldUnchanged

(* next() ends the generator *)
CheckFinished ==
    /\ prog = "eeauditor" /\ pc = "draining"
    /\ \E failAt \in FailChoices :
         LET r == GenNext(gen, cache, args, clock, failAt)
         IN  /\ r.gen.status = "done"
             /\ gen' = r.gen
             /\ cache' = r.cache
             /\ fetch' = Fetched(fetch, KeyOf(gen.check), r)
    /\ idx' = IF gen.again THEN idx ELSE idx + 1
    /\ pc' = "idle"
    /\ UNCHANGED <<prevRun, sink, errors, clock, reinvoked, remembered, ran>>
    /\ LegacyUnchanged /\ WorldUnchanged

(* next() raises: the pass records the failure of the check and goes on *)
CheckFailed ==
    /\ prog = "eeauditor" /\ pc = "draining"
    /\ \E failAt \in FailChoices :
         LET r == GenNext(gen, cache, args, clock, failAt)
         IN  /\ r.gen.status = "raised"
             /\ gen' = r.gen
             /\ cache' = r.cache
             /\ fetch' = Fetched(fetch, KeyOf(gen.check), r)
    /\ errors' = Append(errors, gen.check)
    /\ idx' = IF gen.again THEN idx ELSE idx + 1
    /\ pc' = "idle"
    /\ UNCHANGED <<prevRun, sink, clock, reinvoked, remembered, ran>>
    /\ LegacyUnchanged /\ WorldUnchanged

(* The pass returns: its cache dict, its generator and its findings are    *)
(* dropped (one finding is kept for comparison with later passes).         *)
EndPass ==
    /\ prog = "eeauditor" /\ pc = "idle" /\ idx > Len(plan)
    /\ passNo < MaxPasses
    /\ pc' = "ended"
    /\ remembered' \in Keep(remembered, sink)
    /\ cache' = EmptyCache
    /\ fetch' = [k \in CacheKeys |-> NoFetch]
    /\ gen' = NoGen /\ prevRun' = NoRun
    /\ sink' = <<>> /\ errors' = <<>> /\ ran' = <<>>
    /\ idx' = 1 /\ reinvoked' = 0
    /\ clock' = 10 * passNo
    /\ UNCHANGED <<prog, acct, lay, plan, args, passNo, thr, pd>>
    /\ LegacyUnchanged

(* A later pass starts with a new, empty cache dict *)
NewPass ==
    /\ prog = "eeauditor" /\ pc = "ended"
    /\ passNo' = passNo + 1
    /\ \E w \in WorldsOfPasses : acct' = w[1] /\ lay' = w[2]
    /\ args' \in PassArgs
    /\ plan' \in PlansOfPasses
    /\ pc' = "idle"
    /\ UNCHANGED <<prog, cache, fetch, gen, prevRun, sink, errors, ran, idx,
                   reinvoked, clock, remembered, thr, pd>>
    /\ LegacyUnchanged

----------------------------------------------------------------------------
(* The legacy script: function_unused_check over the module-level listing, *)
(* submitting each finding with batch_import_findings.                     *)

LegacyCommon(lambdaArn, a, t) ==
    [SchemaVersion |-> "2018-10-08",
     Id |-> lambdaArn \o "/lambda-function-unused-check",
     ProductArn |-> "arn:aws:securityhub:" \o a.awsRegion \o ":" \o a.awsAccountId
                        \o ":product/" \o a.awsAccountId \o "/default",
     GeneratorId |-> lambdaArn,
     AwsAccountId |-> a.awsAccountId,
     CreatedAt |-> t,
     Title |-> Title1,
     Resources |-> <<[Type |-> "AwsLambda", Id |-> lambdaArn,
                      Partition |-> "aws", Region |-> a.awsRegion]>>]

LegacyPassed(lambdaArn, a, t) ==
    LegacyCommon(lambdaArn, a, t)
        @@ Outcome("INFORMATIONAL", "PASSED", "RESOLVED", "ARCHIVED")

LegacyFailed(lambdaArn, a, t) ==
    LegacyCommon(lambdaArn, a, t)
        @@ Outcome("LOW", "FAILED", "NEW", "ACTIVE")

(* The findings function_unused_check submits for one function *)
function_unused_check(function, a, t) ==
    LET lambdaArn == function.FunctionArn
        metrics == get_metric_data(function.FunctionName).MetricDataResults
    IN  [m \in 1..Len(metrics) |->
            IF Len(metrics[m].Values) > 0 \/ date_delta_days(function) < 30
            THEN LegacyPassed(lambdaArn, a, t)
            ELSE LegacyFailed(lambdaArn, a, t)]

(* Variant: batch_import_findings is called outside a try block, so its    *)
(* failure ends the script.                                                *)
LegacyFunctionUncaught ==
    /\ prog = "legacy" /\ legacy.status = "running"
    /\ legacy.i < Len(ListFunctions(acct))
    /\ \E importFails \in BOOLEAN :
         LET function == ListFunctions(acct)[legacy.i + 1]
             fs == function_unused_check(function, args, clock + 1)
         IN  /\ imports' = imports \o [m \in 1..Len(fs) |->
                                         [finding |-> fs[m], ok |-> ~importFails]]
             /\ legacy' = [legacy EXCEPT !.i = legacy.i + 1,
                                         !.status = IF importFails THEN "crashed"
                                                    ELSE "running"]
    /\ clock' = clock + 1
    /\ UNCHANGED <<cache, fetch, gen, prevRun, sink, errors, idx, pc, reinvoked,
                   remembered, ran>>
    /\ WorldUnchanged

(* One iteration of `for function in functions`; a failing                 *)
(* batch_import_findings is caught and printed.                            *)
LegacyFunction ==
    /\ prog = "legacy" /\ legacy.status = "running"
    /\ legacy.i < Len(ListFunctions(acct))
    /\ \E importFails \in BOOLEAN :
         LET function == ListFunctions(acct)[legacy.i + 1]
             fs == function_unused_check(function, args, clock + 1)
         IN  /\ imports' = imports \o [m \in 1..Len(fs) |->
                                         [finding |-> fs[m], ok |-> ~importFails]]
    /\ legacy' = [legacy EXCEPT !.i = legacy.i + 1]
    /\ clock' = clock + 1
    /\ UNCHANGED <<cache, fetch, gen, prevRun, sink, errors, idx, pc, reinvoked,
                   remembered, ran>>
    /\ WorldUnchanged

(* get_metric_data raises: nothing catches it, the script ends *)
LegacyMetricError ==
    /\ prog = "legacy" /\ legacy.status = "running"
    /\ legacy.i < Len(ListFunctions(acct))
    /\ legacy' = [legacy EXCEPT !.status = "crashed"]
    /\ UNCHANGED <<cache, fetch, gen, prevRun, sink, errors, idx, pc, clock,
                   reinvoked, remembered, imports, ran>>
    /\ WorldUnchanged

LegacyEnd ==
    /\ prog = "legacy" /\ legacy.status = "running"
    /\ legacy.i = Len(ListFunctions(acct))
    /\ legacy' = [legacy EXCEPT !.status = "finished"]
    /\ UNCHANGED <<cache, fetch, gen, prevRun, sink, errors, idx, pc, clock,
                   reinvoked, remembered, imports, ran>>
    /\ WorldUnchanged

(* The script has ended; one submitted finding is kept for comparison *)
LegacyExit ==
    /\ prog = "legacy" /\ legacy.status \in {"finished", "crashed"}
    /\ passNo < MaxPasses
    /\ legacy' = [i |-> 0, status |-> "exited"]
    /\ remembered' \in Keep(remembered, [k \in 1..Len(imports) |-> imports[k].finding])
    /\ imports' = <<>>
    /\ clock' = 10 * passNo
    /\ UNCHANGED <<cache, fetch, gen, prevRun, sink, errors, idx, pc, reinvoked, ran>>
    /\ WorldUnchanged

(* The script is run again, against whatever the account then holds *)
LegacyRerun ==
    /\ prog = "legacy" /\ legacy.status = "exited"
    /\ passNo' = passNo + 1
    /\ \E w \in WorldsOfPasses : acct' = w[1] /\ lay' = <<>>
    /\ args' \in PassArgs
    /\ legacy' = [i |-> 0, status |-> "running"]
    /\ UNCHANGED <<prog, lay, plan, ran, cache, fetch, gen, prevRun, sink, errors,
                   idx, pc, reinvoked, thr, imports, clock, remembered, pd>>

----------------------------------------------------------------------------

(* Two checks that share one cache dict call get_lambda_functions at the   *)
(* same time.  The helper takes no lock, so the callers interleave between *)
(* its statements: the cache lookup, each page of the listing, the store.  *)

Threads == {1, 2}

IdleThread == [pc |-> "idle", fetched |-> FALSE, page |-> 0, acc |-> <<>>, ret |-> <<>>]

ConcUnchanged ==
    UNCHANGED <<prog, acct, lay, plan, ran, args, passNo, gen, prevRun, sink, errors,
                idx, pc, clock, reinvoked, remembered, imports, legacy, pd>>

(* response = cache.get(...); if response: return response; else paginate *)
ConcGet(t) ==
    /\ prog = "concurrent" /\ thr[t].pc = "idle"
    /\ LET response == CacheGet(cache, "get_lambda_functions")
       IN  IF Truthy(response)
           THEN /\ thr' = [thr EXCEPT ![t].pc = "returned", ![t].ret = response.value]
                /\ fetch' = fetch
           ELSE /\ thr' = [thr EXCEPT ![t].pc = "paging", ![t].fetched = TRUE,
                                      ![t].page = 1]
                /\ fetch' = [fetch EXCEPT !["get_lambda_functions"].calls = @ + 1]
    /\ cache' = cache
    /\ ConcUnchanged

(* for function in page["Functions"]: lambdaFunctions.append(function) *)
ConcPage(t) ==
    /\ prog = "concurrent" /\ thr[t].pc = "paging"
    /\ thr[t].page <= NumPages(ListFunctions(acct))
    /\ thr' = [thr EXCEPT ![t].acc = @ \o Page(ListFunctions(acct), thr[t].page),
                          ![t].page = @ + 1]
    /\ UNCHANGED <<cache, fetch>>
    /\ ConcUnchanged

(* the retrieval of the page raises *)
ConcPageError(t) ==
    /\ prog = "concurrent" /\ thr[t].pc = "paging"
    /\ thr[t].page <= NumPages(ListFunctions(acct))
    /\ Cardinality({u \in Threads : thr[u].pc = "raised"}) < MaxFetchErrors
    /\ thr' = [thr EXCEPT ![t].pc = "raised"]
    /\ fetch' = [fetch EXCEPT !["get_lambda_functions"].failPage = thr[t].page]
    /\ cache' = cache
    /\ ConcUnchanged

(* cache["get_lambda_functions"] = lambdaFunctions; return cache[...] *)
ConcStore(t) ==
    /\ prog = "concurrent" /\ thr[t].pc = "paging"
    /\ thr[t].page > NumPages(ListFunctions(acct))
    /\ cache' = ("get_lambda_functions" :> thr[t].acc) @@ cache
    /\ thr' = [thr EXCEPT ![t].pc = "returned", ![t].ret = thr[t].acc]
    /\ fetch' = [fetch EXCEPT !["get_lambda_functions"].ok = @ + 1]
    /\ ConcUnchanged

----------------------------------------------------------------------------
(* The PagerDuty integration: lambda_handler reads the integration key,    *)
(* then walks event['detail']['findings'] and posts one PagerDuty event    *)
(* per resource of each finding.                                           *)

SeverityLabels == {"CRITICAL", "HIGH", "MEDIUM", "LOW", "INFORMATIONAL", "UNKNOWN"}

(* A finding of the event, with n resources *)
EventFinding(label, n) ==
    [Id |-> "finding/" \o label,
     Title |-> "check " \o label,
     AwsAccountId |-> "111111111111",
     Severity |-> [Label |-> label],
     Compliance |-> [Status |-> IF label = "INFORMATIONAL" THEN "PASSED" ELSE "FAILED"],
     Resources |-> [r \in 1..n |->
                      [Type |-> "AwsLambdaFunction",
                       Id |-> IF r = 1 THEN "arn:lambda:function:fn-a"
                              ELSE "arn:lambda:function:fn-b"]]]

EventFindings == {EventFinding(label, n) : label \in SeverityLabels, n \in {0, 1, 2}}

Events == UNION {[1..n -> EventFindings] : n \in 0..MaxFindings}

(* Python truth value of a string: the empty string is false *)
TruthyStr(str) == str # ""

(* Variant: the condition compares the label with both literals *)
pdSevCompared(severityLabel, previous) ==
    IF severityLabel = "CRITICAL" THEN [value |-> "critical", assigned |-> TRUE]
    ELSE IF severityLabel = "HIGH" THEN [value |-> "error", assigned |-> TRUE]
    ELSE IF severityLabel = "MEDIUM" \/ severityLabel = "LOW"
    THEN [value |-> "warning", assigned |-> TRUE]
    ELSE IF severityLabel = "INFORMATIONAL" THEN [value |-> "info", assigned |-> TRUE]
    ELSE [value |-> previous, assigned |-> FALSE]

(* The if / elif chain that sets pdSev; `previous` is what the variable    *)
(* holds when the chain is entered, and stays when no branch assigns.      *)
pdSev(severityLabel, previous) ==
    IF severityLabel = "CRITICAL" THEN [value |-> "critical", assigned |-> TRUE]
    ELSE IF severityLabel = "HIGH" THEN [value |-> "error", assigned |-> TRUE]
    ELSE IF severityLabel = "MEDIUM" \/ TruthyStr("LOW")
    THEN [value |-> "warning", assigned |-> TRUE]
    ELSE IF severityLabel = "INFORMATIONAL" THEN [value |-> "info", assigned |-> TRUE]
    ELSE [value |-> previous, assigned |-> FALSE]

Unbound == "<unbound>"

PdIdle(event) ==
    [event |-> event, pc |-> "start", pdIntegrationKey |-> Unbound,
     k |-> 0, r |-> 0, pdSev |-> Unbound, assigned |-> FALSE,
     severityLabel |-> "", posts |-> <<>>, printed |-> 0]

(* Variant: the events are de-duplicated by resource *)
pagerdutyEventPerResource(findings, resources, sev, key) ==
    [payload |-> [summary |-> "AWS account " \o findings.AwsAccountId
                                 \o " has failed ElectricEye check " \o findings.Title,
                  source |-> "ElectricEye",
                  severity |-> sev,
                  component |-> resources.Id,
                  custom_details |-> [security_hub_severity |-> findings.Severity.Label,
                                      resource_type |-> resources.Type]],
     dedup_key |-> resources.Id,
     event_action |-> "trigger",
     routing_key |-> key]

(* The request of line 87 *)
pagerdutyEvent(findings, resources, sev, key) ==
    [payload |-> [summary |-> "AWS account " \o findings.AwsAccountId
                                 \o " has failed ElectricEye check " \o findings.Title,
                  source |-> "ElectricEye",
                  severity |-> sev,
                  component |-> resources.Id,
                  custom_details |-> [security_hub_severity |-> findings.Severity.Label,
                                      resource_type |-> resources.Type]],
     dedup_key |-> findings.Id,
     event_action |-> "trigger",
     routing_key |-> key]

PdUnchanged ==
    UNCHANGED <<prog, acct, lay, plan, ran, args, passNo, cache, fetch, gen, prevRun,
                sink, errors, idx, pc, clock, reinvoked, remembered, imports, legacy,
                thr>>

(* Variant: the except clause falls back to an empty integration key *)
PdGetParameterDefault ==
    /\ prog = "pagerduty" /\ pd.pc = "start"
    /\ \E raises \in BOOLEAN :
         pd' = [pd EXCEPT !.pc = "findings",
                          !.pdIntegrationKey = IF raises THEN "" ELSE "key-1",
                          !.printed = IF raises THEN @ + 1 ELSE @]
    /\ PdUnchanged

(* ssm.get_parameter succeeds, or raises and the exception is printed *)
PdGetParameter ==
    /\ prog = "pagerduty" /\ pd.pc = "start"
    /\ \E raises \in BOOLEAN :
         pd' = [pd EXCEPT !.pc = "findings",
                          !.pdIntegrationKey = IF raises THEN Unbound ELSE "key-1",
                          !.printed = IF raises THEN @ + 1 ELSE @]
    /\ PdUnchanged

(* One iteration of the outer loop up to the inner loop: lines 39-55 *)
PdFinding ==
    /\ prog = "pagerduty" /\ pd.pc = "findings" /\ pd.k < Len(pd.event)
    /\ LET findings == pd.event[pd.k + 1]
           sev == pdSev(findings.Severity.Label, pd.pdSev)
       IN  pd' = [pd EXCEPT !.k = @ + 1, !.r = 0, !.pc = "resources",
                            !.severityLabel = findings.Severity.Label,
                            !.pdSev = sev.value, !.assigned = sev.assigned]
    /\ PdUnchanged

(* One iteration of the inner loop: the payload is built (pdSev is read),  *)
(* the headers are built (pdIntegrationKey is read), the request is made.  *)
(* Reading an unbound local raises, and nothing catches it.                *)
PdPost ==
    /\ prog = "pagerduty" /\ pd.pc = "resources"
    /\ pd.r < Len(pd.event[pd.k].Resources)
    /\ LET findings == pd.event[pd.k]
           resources == findings.Resources[pd.r + 1]
       IN  IF pd.pdSev = Unbound \/ pd.pdIntegrationKey = Unbound
           THEN pd' = [pd EXCEPT !.pc = "crashed"]
           ELSE pd' = [pd EXCEPT !.r = @ + 1, !.printed = @ + 1,
                          !.posts = Append(@, pagerdutyEvent(findings, resources,
                                                   pd.pdSev, pd.pdIntegrationKey))]
    /\ PdUnchanged

(* The inner loop is exhausted: back to the outer loop *)
PdNextFinding ==
    /\ prog = "pagerduty" /\ pd.pc = "resources"
    /\ pd.r = Len(pd.event[pd.k].Resources)
    /\ pd' = [pd EXCEPT !.pc = "findings"]
    /\ PdUnchanged

(* The outer loop is exhausted: the handler returns *)
PdEnd ==
    /\ prog = "pagerduty" /\ pd.pc = "findings" /\ pd.k = Len(pd.event)
    /\ pd' = [pd EXCEPT !.pc = "returned"]
    /\ PdUnchanged

InitIn(programs, worlds, plans, arguments) ==
    /\ prog \in programs
    /\ \E w \in worlds : acct = w[1] /\ lay = w[2]
    /\ plan \in plans /\ ran = <<>>
    /\ prog # "eeauditor" => lay = <<>> /\ plan = Registry
    /\ args \in arguments
    /\ passNo = 1
    /\ cache = EmptyCache
    /\ fetch = [k \in CacheKeys |-> NoFetch]
    /\ gen = NoGen /\ prevRun = NoRun
    /\ sink = <<>> /\ errors = <<>>
    /\ idx = 1 /\ pc = "idle" /\ clock = 0 /\ reinvoked = 0
    /\ remembered = Nothing
    /\ imports = <<>>
    /\ legacy = [i |-> 0, status |-> "running"]
    /\ thr = [t \in Threads |-> IdleThread]
    /\ pd \in IF prog = "pagerduty" THEN {PdIdle(e) : e \in Events} ELSE {PdIdle(<<>>)}

(* One pass of the auditor, or one run of the legacy script *)
Init == InitIn({"eeauditor", "legacy"}, WorldsOfOnePass, Plans, OnePassArgs)

Next ==
    \/ InvokeCheck
    \/ ReinvokeCheck
    \/ DeliverFinding
    \/ CheckFinished
    \/ CheckFailed
    \/ LegacyFunction
    \/ LegacyMetricError
    \/ LegacyEnd

Spec == Init /\ [][Next]_vars

(* Several passes (runs), the account changing between them *)
InitPasses == InitIn({"eeauditor", "legacy"}, WorldsOfPasses, PlansOfPasses, PassArgs)

NextPasses ==
    \/ InvokeCheck
    \/ ReinvokeCheck
    \/ DeliverFinding
    \/ CheckFinished
    \/ CheckFailed
    \/ EndPass
    \/ NewPass
    \/ LegacyFunction
    \/ LegacyMetricError
    \/ LegacyEnd
    \/ LegacyExit
    \/ LegacyRerun

SpecPasses == InitPasses /\ [][NextPasses]_vars

(* Two concurrent callers of get_lambda_functions on one cache dict *)
InitConc == InitIn({"concurrent"}, WorldsOfOnePass, {Registry}, OnePassArgs)

NextConc ==
    \/ \E t \in Threads : ConcGet(t)
    \/ \E t \in Threads : ConcPage(t)
    \/ \E t \in Threads : ConcPageError(t)
    \/ \E t \in Threads : ConcStore(t)

SpecConc == InitConc /\ [][NextConc]_vars

(* One invocation of the PagerDuty lambda_handler *)
InitPager == InitIn({"pagerduty"}, {<<<<>>, <<>>>>}, {Registry}, OnePassArgs)

NextPager ==
    \/ PdGetParameter
    \/ PdFinding
    \/ PdPost
    \/ PdNextFinding
    \/ PdEnd

SpecPager == InitPager /\ [][NextPager]_vars

----------------------------------------------------------------------------
(* Properties *)

Upstream(key) ==
    IF key = "get_lambda_layers" THEN ListLayers(lay) ELSE ListFunctions(acct)

ResourceArn(check, item) ==
    IF check = "public_lambda_layer_check"
    THEN item.LatestMatchingVersion.LayerVersionArn
    ELSE item.FunctionArn

Delivered == Range(sink) \cup {imports[k].finding : k \in 1..Len(imports)}

PassFinished == prog = "eeauditor" /\ pc = "idle" /\ idx > Len(plan)

Count(title, arn) ==
    Cardinality({k \in 1..Len(sink) :
                    sink[k].Title = title /\ sink[k].Resources[1].Id = arn})

(* C1: cache idempotence.  Within one pass, for every cache key and every  *)
(* listing (the empty one included), the upstream listing of the key is    *)
(* completed at most once, and a check that started iterates the value     *)
(* stored under the key.                                                   *)
C1_CacheIdempotence ==
    /\ \A k \in CacheKeys : fetch[k].ok <= 1
    /\ gen.status \in {"suspended", "done"} =>
          /\ KeyOf(gen.check) \in DOMAIN cache
          /\ gen.listing = cache[KeyOf(gen.check)]

(* C2: cache failure non-poisoning.  A helper call whose upstream listing  *)
(* raises, on whichever page, stores nothing (the key holds no listing     *)
(* that a later call would reuse) and the exception ends the invoking      *)
(* check; a call that finds no reusable listing under its key fetches; and *)
(* a fetch that succeeds stores the complete upstream listing under the    *)
(* key and returns it.                                                     *)
C2_FailureNonPoisoning ==
    [][\A k \in CacheKeys :
         LET fetchRaised == /\ fetch'[k].calls = fetch[k].calls + 1
                            /\ fetch'[k].ok = fetch[k].ok
             fetchOk == fetch'[k].ok = fetch[k].ok + 1
             starts == /\ gen.status = "created" /\ gen'.status # "created"
                       /\ KeyOf(gen.check) = k
         IN  /\ fetchRaised =>
                  /\ cache' = cache
                  /\ ~Truthy(CacheGet(cache', k))
                  /\ gen'.status = "raised" /\ gen'.yielded = <<>>
                  /\ errors' = Append(errors, gen.check)
             /\ (starts /\ ~Truthy(CacheGet(cache, k))) =>
                  fetch'[k].calls = fetch[k].calls + 1
             /\ fetchOk =>
                  /\ k \in DOMAIN cache' /\ cache'[k] = Upstream(k)
                  /\ gen'.listing = Upstream(k)]_vars

(* A listing that failed on its second or a later page, then a later call  *)
(* that fetched again and stored the complete listing.                     *)
C2_Witness ==
    LET k == "get_lambda_functions"
    IN  /\ prog = "eeauditor"
        /\ fetch[k].failPage >= 2 /\ fetch[k].calls = 2 /\ fetch[k].ok = 1
        /\ errors # <<>>
        /\ k \in DOMAIN cache /\ cache[k] = ListFunctions(acct) /\ Len(cache[k]) >= 2
        /\ gen.status = "suspended" /\ gen.listing = cache[k]

Triple(f) == <<f.Compliance.Status, f.Workflow.Status, f.RecordState>>

ValidTriples ==
    {<<"PASSED", "RESOLVED", "ARCHIVED">>, <<"FAILED", "NEW", "ACTIVE">>}

(* C3: finding consistency.  Every finding a registered check yields and   *)
(* every finding the legacy script submits carries the triple (PASSED,     *)
(* RESOLVED, ARCHIVED) or (FAILED, NEW, ACTIVE).                           *)
C3_FindingConsistency ==
    /\ \A f \in Delivered : Triple(f) \in ValidTriples
    /\ \A k \in 1..Len(gen.pending) : Triple(gen.pending[k]) \in ValidTriples

(* A pass in which all seven checks delivered findings, of both outcomes,  *)
(* the findings of the two KeyError branches and of the ClientError branch *)
(* among them.                                                             *)
C3_Witness ==
    /\ PassFinished
    /\ \A t \in {Title1, Title2, Title3, Title4, Title5, Title6, Title7} :
          \E f \in Range(sink) : f.Title = t
    /\ \E f \in Range(sink) : f.Title = Title3 /\ f.Compliance.Status = "FAILED"
    /\ \E i \in 1..Len(acct) :
          /\ "VpcConfig" \notin DOMAIN FunctionOf(acct[i])
          /\ Count(Title7, FnArn(acct[i])) >= 1
    /\ \E i \in 1..Len(acct) :
          /\ get_policy(FnName(acct[i])).Error = "ResourceNotFoundException"
          /\ Count(Title5, FnArn(acct[i])) >= 1

(* C4: one finding per resource and check.  The findings one invocation of *)
(* a check yields carry pairwise different Ids.                            *)
C4_OneFindingPerResource ==
    \A p, q \in 1..Len(gen.yielded) :
        p # q => gen.yielded[p].Id # gen.yielded[q].Id

(* C5: finding id stability.  Two findings of the same check about the     *)
(* same resource carry the same Id, whether they come from one pass or     *)
(* from two passes with other arguments, timestamps and outcomes.          *)
C5_IdStability ==
    /\ \A f, g \in Delivered :
          (f.Title = g.Title /\ f.Resources[1].Id = g.Resources[1].Id) => f.Id = g.Id
    /\ \A f \in Delivered :
          (remembered.Title = f.Title /\ remembered.Resource = f.Resources[1].Id)
              => remembered.Id = f.Id

(* A finding of a later pass about a resource and check of which an        *)
(* earlier pass delivered a finding with the other outcome.                *)
C5_Witness ==
    /\ passNo >= 2
    /\ \E f \in Range(sink) :
          /\ remembered.Title = f.Title
          /\ remembered.Resource = f.Resources[1].Id
          /\ remembered.Status # f.Compliance.Status
          /\ f.CreatedAt >= 10

Selection == <<"function_tracing_check", "lambda_supported_runtimes_check">>

EndToEndRun ==
    /\ PassFinished /\ plan = Selection /\ reinvoked = 0
    /\ Len(acct) = 3 /\ errors = <<>>

FirstUntraced(listing) ==
    CHOOSE k \in 1..Len(listing) :
        /\ "TracingConfig" \notin DOMAIN listing[k]
        /\ \A m \in 1..(k - 1) : "TracingConfig" \in DOMAIN listing[m]

TracingRaised ==
    /\ prog = "eeauditor"
    /\ gen.check = "function_tracing_check" /\ gen.status = "raised"
    /\ gen.listing # <<>>

(* C7: fault isolation.  When function_tracing_check raises on the first   *)
(* function without TracingConfig, the findings about the functions before *)
(* it are the last ones delivered to the consumer; the step in which a     *)
(* check raises leaves the delivered findings alone and the cache as the   *)
(* helper left it (unchanged once the check holds its listing); and a      *)
(* finished pass has invoked every check of its plan, the checks after     *)
(* the raising one having delivered their findings.                        *)
C7_FaultIsolation ==
    /\ [](TracingRaised =>
            LET b == FirstUntraced(gen.listing)
            IN  /\ Len(gen.yielded) = b - 1
                /\ \A m \in 1..(b - 1) :
                      gen.yielded[m].Resources[1].Id = gen.listing[m].FunctionArn
                /\ Len(sink) >= b - 1
                /\ SubSeq(sink, Len(sink) - b + 2, Len(sink)) = gen.yielded)
    /\ [][(gen'.status = "raised" /\ gen.status # "raised") =>
            /\ cache' = IF gen.status = "created" /\ gen'.listing # <<>>
                        THEN (KeyOf(gen.check) :> gen'.listing) @@ cache
                        ELSE cache
            /\ sink' = sink
            /\ errors' = Append(errors, gen.check)
            /\ pc' = "idle"]_vars
    /\ [](PassFinished =>
            /\ \A i \in 1..Len(plan) : plan[i] \in Range(ran)
            /\ \A i \in 1..Len(errors) : \A j \in 1..Len(plan) :
                  (plan[j] = errors[i] /\ j < Len(plan)) =>
                      \E r \in 1..Len(ran) : ran[r] = plan[j + 1]
            /\ ("function_tracing_check" \in Range(errors)
                  /\ plan = Registry
                  /\ "function_code_signer_check" \notin Range(errors)) =>
                  \A i \in 1..Len(acct) : Count(Title3, FnArn(acct[i])) >= 1)

(* A finished pass over three functions, the third without TracingConfig:  *)
(* two Lambda.2 findings were delivered, the check failed, and the later   *)
(* checks delivered theirs.                                                *)
C7_Witness ==
    /\ PassFinished /\ plan = Registry
    /\ Len(acct) = 3
    /\ "TracingConfig" \notin DOMAIN FunctionOf(acct[3])
    /\ errors = <<"function_tracing_check">>
    /\ Cardinality({k \in 1..Len(sink) : sink[k].Title = Title2}) = 2
    /\ \A i \in 1..3 : Count(Title3, FnArn(acct[i])) = 1 /\ Count(Title7, FnArn(acct[i])) = 1

(* C8: at most one in-flight fetch per key.  Of the concurrent callers of  *)
(* get_lambda_functions, at most one starts an upstream listing that does  *)
(* not raise, and a caller that returned holds the listing in the cache.   *)
C8_SingleFlight ==
    /\ Cardinality({t \in Threads : thr[t].fetched /\ thr[t].pc # "raised"}) <= 1
    /\ \A t \in Threads :
          thr[t].pc = "returned" => thr[t].ret = cache["get_lambda_functions"]

PosOf(g, f) ==
    CHOOSE k \in 1..Len(g.listing) :
        ResourceArn(g.check, g.listing[k]) = f.Resources[1].Id

(* C9: same-check ordering.  The findings of one check invocation come in  *)
(* the order of the listing: a finding about the resource at position i    *)
(* is never yielded after a finding about a resource at a position j > i.  *)
C9_SameCheckOrdering ==
    \A p, q \in 1..Len(gen.yielded) :
        p < q => PosOf(gen, gen.yielded[p]) <= PosOf(gen, gen.yielded[q])

(* public_lambda_function_check yielded two findings about the first       *)
(* function (a policy of two statements), then one about the second.       *)
C9_Witness ==
    /\ gen.check = "public_lambda_function_check"
    /\ Len(gen.yielded) >= 3
    /\ PosOf(gen, gen.yielded[1]) = 1
    /\ PosOf(gen, gen.yielded[2]) = 1
    /\ PosOf(gen, gen.yielded[3]) = 2

Essence(f) ==
    [Id |-> f.Id, Compliance |-> f.Compliance.Status,
     Workflow |-> f.Workflow.Status, RecordState |-> f.RecordState]

Essences(fs) == [k \in 1..Len(fs) |-> Essence(fs[k])]

(* C10: re-invocation tolerance.  A check invoked a second time in the     *)
(* same pass with the same cache, the upstream answering as before, ends   *)
(* as the first invocation did, leaves the cache as the first invocation   *)
(* left it and yields the same findings (Id and status triple) in the      *)
(* same order.                                                             *)
C10_Reinvocation ==
    (gen.again /\ gen.status \in {"done", "raised"} /\ FetchErrors = 0) =>
        /\ prevRun.check = gen.check
        /\ prevRun.status = gen.status
        /\ prevRun.cache = cache
        /\ Essences(gen.yielded) = Essences(prevRun.out)

(* lambda_vpc_ha_subnets_check ran twice to its end over two functions     *)
(* in a VPC.                                                               *)
C10_Witness ==
    /\ gen.again /\ gen.status = "done" /\ FetchErrors = 0
    /\ gen.check = "lambda_vpc_ha_subnets_check"
    /\ Len(gen.yielded) >= 2
    /\ \A k \in 1..2 : "VpcConfig" \in DOMAIN gen.listing[k]
    /\ gen.yielded[1].Compliance.Status # gen.yielded[2].Compliance.Status

LambdaOrder ==
    <<"unused_function_check", "function_tracing_check",
      "function_code_signer_check", "public_lambda_layer_check",
      "public_lambda_function_check", "lambda_supported_runtimes_check",
      "lambda_vpc_ha_subnets_check">>

RECURSIVE Collapse(_)
(* A sequence without its immediate repetitions *)
Collapse(s) ==
    IF Len(s) <= 1 THEN s
    ELSE IF s[Len(s)] = s[Len(s) - 1] THEN Collapse(SubSeq(s, 1, Len(s) - 1))
    ELSE Append(Collapse(SubSeq(s, 1, Len(s) - 1)), s[Len(s)])

PosIn(s, x) == CHOOSE k \in 1..Len(s) : s[k] = x

(* C11: registry determinism.  The lookup of "lambda" returns the seven     *)
(* checks in the order of their registration, in every pass; the checks a  *)
(* pass runs stand in that order, and the pass invokes them in that order  *)
(* (a repeated invocation follows the invocation it repeats).              *)
C11_RegistryOrder ==
    /\ get_checks(registry, "lambda") = LambdaOrder
    /\ prog = "eeauditor" =>
          /\ \A i, j \in 1..Len(plan) :
                i < j => /\ plan[i] \in Range(LambdaOrder)
                         /\ plan[j] \in Range(LambdaOrder)
                         /\ PosIn(LambdaOrder, plan[i]) < PosIn(LambdaOrder, plan[j])
          /\ Collapse(ran) = SubSeq(plan, 1, Len(Collapse(ran)))
          /\ PassFinished => Collapse(ran) = plan

(* A second pass that ran the seven checks, one of them twice *)
C11_Witness ==
    /\ PassFinished /\ passNo = 2 /\ reinvoked = 1
    /\ Len(plan) = 7 /\ Len(ran) = 8 /\ Collapse(ran) = LambdaOrder

(* C12: pass-scoped cache.  The first helper call for a key in a pass      *)
(* (the key is not in the cache dict of the pass), whatever earlier passes *)
(* fetched, lists upstream; when the listing succeeds the check iterates,  *)
(* and the cache holds, the upstream state of this pass.                   *)
C12_PassScopedCache ==
    [][\A k \in CacheKeys :
         (/\ gen.status = "created" /\ gen'.status # "created"
          /\ KeyOf(gen.check) = k /\ k \notin DOMAIN cache) =>
             /\ fetch'[k].calls = fetch[k].calls + 1
             /\ fetch'[k].ok = fetch[k].ok + 1 =>
                   /\ gen'.listing = Upstream(k)
                   /\ k \in DOMAIN cache' /\ cache'[k] = Upstream(k)]_vars

(* A second pass whose first check listed the functions of an account that *)
(* no longer holds the function an earlier pass reported on.               *)
C12_Witness ==
    /\ prog = "eeauditor" /\ passNo = 2 /\ remembered # Nothing
    /\ gen.status = "suspended" /\ Len(ran) = 1
    /\ KeyOf(gen.check) = "get_lambda_functions"
    /\ fetch["get_lambda_functions"].calls = 1
    /\ gen.listing = ListFunctions(acct) /\ Len(gen.listing) >= 1
    /\ \A i \in 1..Len(acct) : FnArn(acct[i]) # remembered.Resource
    /\ \E v \in FnVariants : FnArn(v) = remembered.Resource

(* C13: lazy, streamed production.  A check that has just yielded a        *)
(* finding has run its calls for the resources up to the one the finding   *)
(* is about and for none after it, and the consumer holds that finding     *)
(* while the check is unfinished; creating the generator lists nothing     *)
(* and leaves the cache and the consumer as they were.                     *)
C13_LazyProduction ==
    /\ [](gen.status = "suspended" =>
            /\ gen.yielded # <<>>
            /\ gen.i = PosOf(gen, gen.yielded[Len(gen.yielded)])
            /\ sink # <<>> /\ sink[Len(sink)] = gen.yielded[Len(gen.yielded)])
    /\ [][gen'.status = "created" =>
            /\ cache' = cache /\ fetch' = fetch /\ sink' = sink
            /\ gen'.listing = <<>> /\ gen'.i = 0 /\ gen'.yielded = <<>>]_vars

(* unused_function_check has yielded the finding of the first of three     *)
(* functions: the consumer holds it, the second function is untouched.     *)
C13_Witness ==
    /\ gen.check = "unused_function_check" /\ gen.status = "suspended"
    /\ Len(gen.listing) = 3 /\ gen.i = 1
    /\ Len(gen.yielded) = 1 /\ sink = gen.yielded

MappedSeverity ==
    [l \in {"CRITICAL", "HIGH", "MEDIUM", "LOW", "INFORMATIONAL"} |->
        CASE l = "CRITICAL" -> "critical"
          [] l = "HIGH" -> "error"
          [] l = "INFORMATIONAL" -> "info"
          [] OTHER -> "warning"]

(* C14: PagerDuty severity mapping.  For every finding of the event the    *)
(* handler sets the severity CRITICAL -> critical, HIGH -> error,          *)
(* MEDIUM -> warning, LOW -> warning, INFORMATIONAL -> info, and every     *)
(* event it posts carries the severity mapped from the finding's label.    *)
C14_SeverityMapping ==
    /\ (pd.pc = "resources" /\ pd.severityLabel \in DOMAIN MappedSeverity) =>
          pd.pdSev = MappedSeverity[pd.severityLabel]
    /\ \A n \in 1..Len(pd.posts) :
          LET label == pd.posts[n].payload.custom_details.security_hub_severity
          IN  label \in DOMAIN MappedSeverity =>
                 pd.posts[n].payload.severity = MappedSeverity[label]

(* C15: the PagerDuty severity is always assigned.  In every iteration of  *)
(* the loop over the findings one of the first three branches assigns      *)
(* pdSev (the third for every label that is neither CRITICAL nor HIGH), so *)
(* the fourth branch and the else branch are never taken, and every event  *)
(* posted carries the severity assigned in the iteration of its finding.   *)
C15_SeverityAssigned ==
    /\ pd.pc = "resources" =>
          /\ pd.assigned /\ pd.pdSev # Unbound
          /\ pd.severityLabel \notin {"CRITICAL", "HIGH"} => pd.pdSev = "warning"
          /\ pd.severityLabel = "CRITICAL" => pd.pdSev = "critical"
          /\ pd.severityLabel = "HIGH" => pd.pdSev = "error"
    /\ \A n \in 1..Len(pd.posts) :
          LET label == pd.posts[n].payload.custom_details.security_hub_severity
          IN  pd.posts[n].payload.severity =
                 CASE label = "CRITICAL" -> "critical"
                   [] label = "HIGH" -> "error"
                   [] OTHER -> "warning"
    /\ pd.pc = "crashed" => pd.pdIntegrationKey = Unbound

(* A HIGH finding, then a finding with a label outside the enumeration:    *)
(* the event posted for the second one carries "warning", not the "error"  *)
(* of the finding before it.                                               *)
C15_Witness ==
    /\ prog = "pagerduty" /\ Len(pd.event) = 2 /\ pd.k = 2
    /\ pd.event[1].Severity.Label = "HIGH"
    /\ pd.event[2].Severity.Label = "UNKNOWN"
    /\ Len(pd.posts) = 2
    /\ pd.posts[1].payload.severity = "error"
    /\ pd.posts[2].payload.severity = "warning"

OwnAzs(function) ==
    {SubnetAz[function.VpcConfig.SubnetIds[k]] :
        k \in 1..Len(function.VpcConfig.SubnetIds)}

(* C16: Lambda.7 judges each function on its own subnets.  Every finding   *)
(* of lambda_vpc_ha_subnets_check about a function with a VpcConfig is     *)
(* FAILED exactly when the subnets of that function lie in at most one     *)
(* Availability Zone, whatever else the listing holds; a function without  *)
(* VpcConfig gets a PASSED finding; no function gets two findings.         *)
C16_OwnSubnets ==
    gen.check = "lambda_vpc_ha_subnets_check" =>
        /\ \A p \in 1..Len(gen.yielded) :
              LET function == gen.listing[PosOf(gen, gen.yielded[p])]
                  status == gen.yielded[p].Compliance.Status
              IN  IF "VpcConfig" \in DOMAIN function
                  THEN (status = "FAILED") <=> (Cardinality(OwnAzs(function)) <= 1)
                  ELSE status = "PASSED"
        /\ \A p, q \in 1..Len(gen.yielded) :
              p # q => gen.yielded[p].Resources[1].Id # gen.yielded[q].Resources[1].Id

FunctionAbout(f) == CHOOSE v \in Range(acct) : FnArn(v) = f.Resources[1].Id

HasDatapoints(v) ==
    \E m \in 1..Len(MetricDataResults(v)) : Len(MetricDataResults(v)[m].Values) > 0

AgeInHours(v) == Today * 24 - FunctionOf(v).LastModified

(* C17: Lambda.1 decision rule.  A Lambda.1 finding, of the registered     *)
(* check or of the legacy script, is PASSED and INFORMATIONAL when the     *)
(* function's Invocations metric has a datapoint or the function was       *)
(* modified less than 30 whole days ago, and FAILED and LOW otherwise      *)
(* (so at exactly 30 days without datapoints).                             *)
C17_UnusedRule ==
    \A f \in Delivered :
        f.Title = Title1 =>
            LET v == FunctionAbout(f)
            IN  IF HasDatapoints(v) \/ AgeInHours(v) < 30 * 24
                THEN f.Compliance.Status = "PASSED" /\ f.Severity.Label = "INFORMATIONAL"
                ELSE f.Compliance.Status = "FAILED" /\ f.Severity.Label = "LOW"

(* unused_function_check ran over a function modified exactly 30 days ago  *)
(* (FAILED), one modified an hour later (PASSED), both without datapoints, *)
(* and an old one with datapoints (PASSED).                                *)
C17_Witness ==
    /\ gen.check = "unused_function_check" /\ gen.status = "done"
    /\ Len(gen.yielded) = 3
    /\ \E f \in Range(gen.yielded) :
          /\ AgeInHours(FunctionAbout(f)) = 30 * 24 /\ ~HasDatapoints(FunctionAbout(f))
          /\ f.Compliance.Status = "FAILED"
    /\ \E f \in Range(gen.yielded) :
          /\ AgeInHours(FunctionAbout(f)) = 30 * 24 - 1 /\ ~HasDatapoints(FunctionAbout(f))
          /\ f.Compliance.Status = "PASSED"
    /\ \E f \in Range(gen.yielded) :
          /\ AgeInHours(FunctionAbout(f)) > 30 * 24 /\ HasDatapoints(FunctionAbout(f))
          /\ f.Compliance.Status = "PASSED"

FindingsAbout(fs, arn) == SelectSeq(fs, LAMBDA f : f.Resources[1].Id = arn)

(* C18: Lambda.4 decision rule.  The findings of public_lambda_layer_check *)
(* about a layer follow the statements of its policy, one per statement:   *)
(* FAILED and HIGH when the statement allows Principal "*" and has no      *)
(* Condition.StringEquals["aws:PrincipalOrgID"] (a condition of another    *)
(* kind does not count), PASSED and INFORMATIONAL otherwise.               *)
C18_LayerRule ==
    gen.check = "public_lambda_layer_check" =>
        \A k \in 1..Len(gen.listing) :
            LET layer == gen.listing[k]
                policy == get_layer_version_policy(layer.LayerName)
                fs == FindingsAbout(gen.yielded, layer.LatestMatchingVersion.LayerVersionArn)
            IN  policy.Error = "" =>
                  /\ Len(fs) <= Len(policy.Statement)
                  /\ (gen.status = "done" \/ gen.i > k) => Len(fs) = Len(policy.Statement)
                  /\ \A n \in 1..Len(fs) :
                        LET st == policy.Statement[n]
                            org == /\ "Condition" \in DOMAIN st
                                   /\ "StringEquals" \in DOMAIN st.Condition
                                   /\ "aws:PrincipalOrgID" \in DOMAIN st.Condition.StringEquals
                        IN  IF st.Principal = "*" /\ st.Effect = "Allow" /\ ~org
                            THEN /\ fs[n].Compliance.Status = "FAILED"
                                 /\ fs[n].Severity.Label = "HIGH"
                            ELSE /\ fs[n].Compliance.Status = "PASSED"
                                 /\ fs[n].Severity.Label = "INFORMATIONAL"

(* The check ran over a layer shared with everyone and with one            *)
(* organization, and over a layer whose statements are a public one with   *)
(* an ArnLike condition, one for an account and a Deny.                    *)
C18_Witness ==
    /\ gen.check = "public_lambda_layer_check" /\ gen.status = "done"
    /\ Len(gen.listing) = 2 /\ Len(gen.yielded) = 5
    /\ \E n \in 1..5 :
          /\ gen.yielded[n].Resources[1].Id = LayerOf(2).LatestMatchingVersion.LayerVersionArn
          /\ gen.yielded[n].Compliance.Status = "FAILED"
    /\ \E n \in 1..5 :
          /\ gen.yielded[n].Resources[1].Id = LayerOf(1).LatestMatchingVersion.LayerVersionArn
          /\ gen.yielded[n].Compliance.Status = "PASSED"

(* C19: Lambda.5 error handling.  In public_lambda_function_check a        *)
(* function whose get_policy raises ResourceNotFoundException gets exactly *)
(* one finding, PASSED; a function whose get_policy raises a ClientError   *)
(* with another code gets none; neither makes the check raise, and the     *)
(* check goes on to the end of the listing.                                *)
C19_PolicyErrors ==
    gen.check = "public_lambda_function_check" =>
        /\ gen.status = "raised" => gen.i = 0 /\ gen.listing = <<>>
        /\ gen.status = "done" => gen.i = Len(gen.listing)
        /\ \A k \in 1..Len(gen.listing) :
              LET function == gen.listing[k]
                  policy == get_policy(function.FunctionName)
                  fs == FindingsAbout(gen.yielded, function.FunctionArn)
                  visited == gen.status = "done" \/ gen.i > k
              IN  /\ policy.Error = "ResourceNotFoundException" =>
                        /\ Len(fs) <= 1
                        /\ visited => Len(fs) = 1
                        /\ \A n \in 1..Len(fs) : fs[n].Compliance.Status = "PASSED"
                  /\ policy.Error \notin {"", "ResourceNotFoundException"} => fs = <<>>
                  /\ (policy.Error = "" /\ visited) => Len(fs) = Len(policy.Statement)

(* The check ran to its end over a function whose policy lookup is denied, *)
(* a function without a policy and a function with one.                    *)
C19_Witness ==
    /\ gen.check = "public_lambda_function_check" /\ gen.status = "done"
    /\ Len(gen.listing) = 3
    /\ get_policy(gen.listing[1].FunctionName).Error = "AccessDeniedException"
    /\ get_policy(gen.listing[2].FunctionName).Error = "ResourceNotFoundException"
    /\ get_policy(gen.listing[3].FunctionName).Error = ""
    /\ Len(gen.yielded) = 2
    /\ gen.yielded[1].Resources[1].Id = gen.listing[2].FunctionArn
    /\ gen.yielded[1].Compliance.Status = "PASSED"
    /\ gen.yielded[2].Resources[1].Id = gen.listing[3].FunctionArn

(* C20: Lambda.3 decision rule.  function_code_signer_check yields one     *)
(* finding for each function it visits, never two: PASSED and              *)
(* INFORMATIONAL when the descriptor has the key SigningJobArn, FAILED and *)
(* MEDIUM when it has not; the check itself never raises.                  *)
C20_CodeSignerRule ==
    gen.check = "function_code_signer_check" =>
        /\ gen.status = "raised" => gen.i = 0 /\ gen.listing = <<>>
        /\ \A k \in 1..Len(gen.listing) :
              LET function == gen.listing[k]
                  fs == FindingsAbout(gen.yielded, function.FunctionArn)
              IN  /\ Len(fs) = IF gen.i >= k THEN 1 ELSE 0
                  /\ \A n \in 1..Len(fs) :
                        IF "SigningJobArn" \in DOMAIN function
                        THEN /\ fs[n].Compliance.Status = "PASSED"
                             /\ fs[n].Severity.Label = "INFORMATIONAL"
                        ELSE /\ fs[n].Compliance.Status = "FAILED"
                             /\ fs[n].Severity.Label = "MEDIUM"

(* The check ran to its end over a signed and an unsigned function *)
C20_Witness ==
    /\ gen.check = "function_code_signer_check" /\ gen.status = "done"
    /\ Len(gen.listing) >= 2 /\ Len(gen.yielded) = Len(gen.listing)
    /\ "SigningJobArn" \in DOMAIN gen.listing[1]
    /\ "SigningJobArn" \notin DOMAIN gen.listing[2]
    /\ gen.yielded[1].Compliance.Status = "PASSED"
    /\ gen.yielded[2].Compliance.Status = "FAILED"

LayerArnAt(g, k) == g.listing[k].LatestMatchingVersion.LayerVersionArn

LayerPolicyAt(g, k) == get_layer_version_policy(g.listing[k].LayerName)

(* C21: Lambda.4 policy-lookup failure.  When get_layer_version_policy     *)
(* raises for a layer of the listing, public_lambda_layer_check ends with  *)
(* that exception at that layer (it never runs to its end): the findings   *)
(* of the layers before it have been yielded, one per statement, and no    *)
(* finding is yielded for that layer or for a layer after it.  The check   *)
(* raises over a listing for no other reason.                              *)
C21_LayerPolicyFailure ==
    (gen.check = "public_lambda_layer_check" /\ gen.listing # <<>>) =>
        /\ gen.status = "raised" =>
              /\ gen.i >= 1 /\ LayerPolicyAt(gen, gen.i).Error # ""
              /\ gen.check \in Range(errors)
        /\ \A p \in 1..Len(gen.listing) :
              (/\ LayerPolicyAt(gen, p).Error # ""
               /\ \A q \in 1..(p - 1) : LayerPolicyAt(gen, q).Error = "") =>
                  /\ gen.status # "done"
                  /\ gen.i <= p
                  /\ gen.status = "raised" =>
                        /\ gen.i = p
                        /\ \A q \in 1..(p - 1) :
                              Len(FindingsAbout(gen.yielded, LayerArnAt(gen, q)))
                                  = Len(LayerPolicyAt(gen, q).Statement)
                  /\ \A q \in p..Len(gen.listing) :
                        FindingsAbout(gen.yielded, LayerArnAt(gen, q)) = <<>>

(* The check raised at the second layer of the listing, whose version has  *)
(* no policy, after the two findings of the first layer.                   *)
C21_Witness ==
    /\ gen.check = "public_lambda_layer_check" /\ gen.status = "raised"
    /\ Len(gen.listing) = 2
    /\ LayerPolicyAt(gen, 1).Error = ""
    /\ LayerPolicyAt(gen, 2).Error = "ResourceNotFoundException"
    /\ Len(gen.yielded) = 2 /\ Len(sink) >= 2
    /\ \A n \in 1..2 : gen.yielded[n].Resources[1].Id = LayerArnAt(gen, 1)
    /\ gen.check \in Range(errors)

FunctionChecks ==
    {"unused_function_check", "function_tracing_check", "function_code_signer_check",
     "public_lambda_function_check", "lambda_supported_runtimes_check",
     "lambda_vpc_ha_subnets_check"}

(* C22: coverage.  When a check over the function inventory has finished   *)
(* without raising, it has yielded at least one finding about every        *)
(* function of the listing cached for the pass.                            *)
C22_Coverage ==
    (/\ prog = "eeauditor" /\ gen.check \in FunctionChecks /\ gen.status = "done"
     /\ "get_lambda_functions" \in DOMAIN cache) =>
        \A k \in 1..Len(cache["get_lambda_functions"]) :
            FindingsAbout(gen.yielded, cache["get_lambda_functions"][k].FunctionArn) # <<>>

(* C23: severity follows outcome.  Every finding a registered check yields *)
(* and every finding the legacy script submits is PASSED with the label    *)
(* INFORMATIONAL, or FAILED with one of the labels LOW, MEDIUM and HIGH.   *)
C23_SeverityFollowsOutcome ==
    \A f \in Delivered \cup Range(gen.pending) :
        \/ /\ f.Compliance.Status = "PASSED"
           /\ f.Severity.Label = "INFORMATIONAL"
        \/ /\ f.Compliance.Status = "FAILED"
           /\ f.Severity.Label \in {"LOW", "MEDIUM", "HIGH"}

(* A finished pass of the seven checks with passing findings and with      *)
(* failing findings of each of the three labels.                           *)
C23_Witness ==
    /\ PassFinished /\ Len(plan) = 7
    /\ \A l \in {"LOW", "MEDIUM", "HIGH"} :
          \E f \in Range(sink) : f.Compliance.Status = "FAILED" /\ f.Severity.Label = l
    /\ \E f \in Range(sink) :
          f.Compliance.Status = "PASSED" /\ f.Severity.Label = "INFORMATIONAL"
    /\ \A t \in {Title1, Title2, Title3, Title4, Title5, Title6, Title7} :
          \E f \in Range(sink) : f.Title = t

(* C24: cache frame and monotonicity.  The cache of a pass holds no key    *)
(* other than "get_lambda_functions" and "get_lambda_layers"; a step that  *)
(* changes the cache changes only the key of the check being drained, so   *)
(* populating one key leaves the other as it was; and a key that holds a   *)
(* non-empty listing keeps that listing in every later step of the pass.   *)
C24_CacheFrame ==
    /\ [](DOMAIN cache \subseteq CacheKeys)
    /\ [][\A k \in CacheKeys :
            /\ (k \in DOMAIN cache /\ cache[k] # <<>>) =>
                  k \in DOMAIN cache' /\ cache'[k] = cache[k]
            /\ k # KeyOf(gen.check) =>
                  /\ (k \in DOMAIN cache') = (k \in DOMAIN cache)
                  /\ k \in DOMAIN cache => cache'[k] = cache[k]]_vars

(* A finished pass of the seven checks, the last one invoked twice, in     *)
(* which both keys hold the non-empty listing fetched once.                *)
C24_Witness ==
    /\ PassFinished /\ Len(plan) = 7 /\ reinvoked = 1
    /\ \A k \in CacheKeys :
          /\ k \in DOMAIN cache /\ cache[k] # <<>> /\ cache[k] = Upstream(k)
          /\ fetch[k].calls = 1 /\ fetch[k].ok = 1

RECURSIVE FanOut(_, _)
(* The (finding, resource) pairs of the first n findings of an event, in   *)
(* event order                                                             *)
FanOut(event, n) ==
    IF n = 0 THEN <<>>
    ELSE FanOut(event, n - 1)
             \o [r \in 1..Len(event[n].Resources) |-> [finding |-> n, resource |-> r]]

(* The pairs lambda_handler has gone through *)
PairsDone ==
    CASE pd.pc = "start" -> <<>>
      [] pd.pc = "resources" -> FanOut(pd.event, pd.k - 1)
                                    \o [r \in 1..pd.r |-> [finding |-> pd.k, resource |-> r]]
      [] OTHER -> FanOut(pd.event, pd.k)

KeyLookupFailed == pd.printed > Len(pd.posts)

(* C26: integration-key failure.  No POST is made without a routing key.   *)
(* When get_parameter raises, the exception is printed once, the key stays *)
(* unbound and no POST is made at all: the handler returns only if no      *)
(* finding of the event has a resource, and otherwise ends with an         *)
(* unhandled error at the first resource of the first finding that has     *)
(* one.                                                                    *)
C26_KeyFailure ==
    prog = "pagerduty" =>
        /\ \A n \in 1..Len(pd.posts) : pd.posts[n].routing_key \notin {Unbound, ""}
        /\ KeyLookupFailed =>
              /\ pd.printed = 1 /\ pd.posts = <<>>
              /\ pd.pdIntegrationKey = Unbound
              /\ pd.r = 0
              /\ pd.pc = "returned" =>
                    \A k \in 1..Len(pd.event) : pd.event[k].Resources = <<>>
              /\ pd.pc \in {"resources", "crashed"} =>
                    \A j \in 1..(pd.k - 1) : pd.event[j].Resources = <<>>
              /\ pd.pc = "crashed" =>
                    /\ pd.k >= 1 /\ pd.event[pd.k].Resources # <<>>
        /\ pd.pc = "crashed" => KeyLookupFailed

(* get_parameter raised and the handler ended with the unhandled error at  *)
(* the first resource of the second finding, the first one having none.    *)
C26_Witness ==
    /\ prog = "pagerduty" /\ pd.pc = "crashed" /\ pd.pdIntegrationKey = Unbound
    /\ pd.printed = 1 /\ pd.posts = <<>>
    /\ Len(pd.event) = 2 /\ pd.k = 2 /\ pd.r = 0
    /\ pd.event[1].Resources = <<>> /\ Len(pd.event[2].Resources) = 2

(* The submission attempts of the legacy script about one function *)
AttemptsAbout(arn) ==
    SelectSeq(imports, LAMBDA s : s.finding.Resources[1].Id = arn)

(* C27: legacy submission isolation.  In the legacy function_unused_check  *)
(* every function the loop has gone through has exactly one submission     *)
(* attempt per metric result, the functions not yet reached have none, and *)
(* the attempts stand in listing order, whether or not an attempt failed;  *)
(* a submission attempt, failed or not, leaves the script running, and the *)
(* script finishes only after the last function.  A failing                *)
(* get_metric_data ends the script before the end of the listing, with no  *)
(* attempt for the function at hand.                                       *)
C27_SubmissionIsolation ==
    /\ [](prog = "legacy" =>
            LET functions == ListFunctions(acct)
            IN  /\ legacy.i <= Len(functions)
                /\ \A k \in 1..Len(functions) :
                      Len(AttemptsAbout(functions[k].FunctionArn))
                          = IF k <= legacy.i
                            THEN Len(get_metric_data(functions[k].FunctionName).MetricDataResults)
                            ELSE 0
                /\ \A p, q \in 1..Len(imports) :
                      p < q =>
                          \E k, l \in 1..Len(functions) :
                              /\ k <= l
                              /\ imports[p].finding.Resources[1].Id = functions[k].FunctionArn
                              /\ imports[q].finding.Resources[1].Id = functions[l].FunctionArn
                /\ legacy.status = "finished" => legacy.i = Len(functions)
                /\ legacy.status = "crashed" => legacy.i < Len(functions))
    /\ [][(prog = "legacy" /\ imports' # imports /\ Len(imports') > Len(imports)) =>
              legacy'.status = "running"]_vars

(* The script finished over three functions although the submissions for   *)
(* the first and the second one failed.                                    *)
C27_Witness ==
    /\ prog = "legacy" /\ legacy.status = "finished"
    /\ Len(acct) = 3 /\ Len(imports) = 3
    /\ ~imports[1].ok /\ ~imports[2].ok /\ imports[3].ok
    /\ \A k \in 1..3 :
          imports[k].finding.Resources[1].Id = ListFunctions(acct)[k].FunctionArn

====
